---- MODULE Spec2Model ----
(***************************************************************************)
(* Model of the task auto-scheduler of apps/agent: the slot calendar       *)
(* (scheduler/time_slots.py, TimeSlotManager), the allocator               *)
(* (scheduler/scheduling_algorithm.py, TaskScheduler) and the service that *)
(* runs scheduling cycles (services/task_scheduler.py, app.py,             *)
(* routes/scheduler.py).                                                   *)
(*                                                                         *)
(* A datetime is a number of minutes since Monday 00:00 of the week the    *)
(* model starts in; all datetimes are in one timezone.  An Optional value  *)
(* is a sequence: <<>> is None, <<v>> or <<start, end>> is a value.        *)
(* A task's duration_hrs is carried as duration_hrs * 60, a whole number   *)
(* of minutes, so that fractional hours (0.4 h, 2.5 h) stay integers.      *)
(***************************************************************************)
EXTENDS Integers, Sequences, FiniteSets, TLC

VARIABLES
    cfg,             \* TimeSlotManager configuration (work hours, slot length, days ahead)
    now,             \* the wall clock, datetime.now()
    dry_run,         \* TaskScheduler.dry_run
    store,           \* the task store (Notion database): task id -> page properties
    occupied_slots,  \* TimeSlotManager.occupied_slots: TimeSlot -> task id
    cyc,             \* per thread: the position and locals of run_scheduling_cycle
    svc,             \* TaskSchedulerService.last_run / last_stats
    call             \* the last direct call of a TimeSlotManager method and its result

vars == <<cfg, now, dry_run, store, occupied_slots, cyc, svc, call>>

None == <<>>

Max2(a, b) == IF a >= b THEN a ELSE b
Min2(a, b) == IF a <= b THEN a ELSE b

-----------------------------------------------------------------------------
(* datetime arithmetic *)

MinutesPerDay == 24 * 60

\* datetime.date(): the calendar day of a datetime (days since the Monday of week 0)
DateOf(t) == t \div MinutesPerDay

\* datetime.weekday(): 0 = Monday .. 6 = Sunday
Weekday(t) == DateOf(t) % 7

\* datetime.hour
HourOf(t) == (t % MinutesPerDay) \div 60

\* datetime.replace(hour=h, minute=0, second=0, microsecond=0)
ReplaceHour(t, h) == DateOf(t) * MinutesPerDay + h * 60

\* TimeSlot(start, end)
TimeSlot(s, e) == [start |-> s, end |-> e]

-----------------------------------------------------------------------------
(* TimeSlotManager: slot generation *)

RECURSIVE DaySlotsFrom(_, _, _)
\* the while loop of _generate_day_slots: slots from current_time while current_time < end_time
DaySlotsFrom(current_time, end_time, c) ==
    IF current_time < end_time
    THEN <<TimeSlot(current_time, current_time + c.slot_duration_minutes)>>
         \o DaySlotsFrom(current_time + c.slot_duration_minutes, end_time, c)
    ELSE <<>>

\* TimeSlotManager._generate_day_slots(date)
generate_day_slots(date, c) ==
    DaySlotsFrom(ReplaceHour(date, c.work_start_hour),
                 ReplaceHour(date, c.work_end_hour), c)

RECURSIVE DaysFrom(_, _, _)
\* the while loop of generate_work_slots over current_date < end_date, weekends skipped
DaysFrom(current_date, end_date, c) ==
    IF current_date < end_date
    THEN (IF Weekday(current_date) < 5 THEN generate_day_slots(current_date, c) ELSE <<>>)
         \o DaysFrom(current_date + MinutesPerDay, end_date, c)
    ELSE <<>>

\* generate_work_slots without the filter of past slots
generate_work_slots_with_past(c, clock) ==
    LET current_date == ReplaceHour(clock, 0)
        end_date == current_date + c.schedule_days_ahead * MinutesPerDay
    IN  DaysFrom(current_date, end_date, c)

\* TimeSlotManager.generate_work_slots() with start_date = now and days = schedule_days_ahead
generate_work_slots(c, clock) ==
    LET current_date == ReplaceHour(clock, 0)
        end_date == current_date + c.schedule_days_ahead * MinutesPerDay
        slots == DaysFrom(current_date, end_date, c)
    IN  SelectSeq(slots, LAMBDA slot : slot.start >= clock)

-----------------------------------------------------------------------------
(* TimeSlotManager: occupancy *)

\* an overlap test that also counts two slots that only touch
slots_overlap_or_touch(slot1, slot2) == slot1.start <= slot2.end /\ slot1.end >= slot2.start

\* TimeSlotManager._slots_overlap
slots_overlap(slot1, slot2) == slot1.start < slot2.end /\ slot1.end > slot2.start

\* occupied_slots[slot] = task_id (a dict assignment: an existing key is overwritten)
DictPut(d, k, v) == [x \in (DOMAIN d) \cup {k} |-> IF x = k THEN v ELSE d[x]]

RECURSIVE MarkFrom(_, _, _, _, _)
\* the while loop of mark_slots_occupied
MarkFrom(occ, current, end_time, task_id, c) ==
    IF current < end_time
    THEN MarkFrom(DictPut(occ,
                          TimeSlot(current, Min2(current + c.slot_duration_minutes, end_time)),
                          task_id),
                  current + c.slot_duration_minutes, end_time, task_id, c)
    ELSE occ

\* TimeSlotManager.mark_slots_occupied(start_time, end_time, task_id)
mark_slots_occupied(occ, start_time, end_time, task_id, c) ==
    MarkFrom(occ, start_time, end_time, task_id, c)

\* get_available_slots without the occupancy test: every slot is offered again
get_available_slots_ignoring_occupancy(occ, all_slots) == all_slots

\* TimeSlotManager.get_available_slots(all_slots)
get_available_slots(occ, all_slots) ==
    SelectSeq(all_slots,
              LAMBDA slot : ~ \E occupied_slot \in DOMAIN occ : slots_overlap(slot, occupied_slot))

\* the empty dict {}
EmptyDict == [x \in {} |-> None]

\* a schedule_tasks that keeps the occupancy map of the cycle before
clear_occupied_slots_kept(occ) == occ

\* TimeSlotManager.clear_occupied_slots()
clear_occupied_slots(occ) == EmptyDict

-----------------------------------------------------------------------------
(* TimeSlotManager: search *)

RECURSIVE ContiguousFrom_any_day(_, _, _, _, _)
\* the inner loop without the "don't span across days" test
ContiguousFrom_any_day(slots, i, j, slots_needed, current_end) ==
    IF j >= slots_needed THEN TRUE
    ELSE IF i + j >= Len(slots) THEN FALSE
    ELSE LET next_slot == slots[i + j + 1]
         IN  IF next_slot.start # current_end THEN FALSE
             ELSE ContiguousFrom_any_day(slots, i, j + 1, slots_needed, next_slot.end)

RECURSIVE ContiguousFrom(_, _, _, _, _)
\* the inner for loop of _find_contiguous_slots: j in range(1, slots_needed)
ContiguousFrom(slots, i, j, slots_needed, current_end) ==
    IF j >= slots_needed THEN TRUE
    ELSE IF i + j >= Len(slots) THEN FALSE
    ELSE LET next_slot == slots[i + j + 1]
         IN  IF next_slot.start # current_end THEN FALSE
             ELSE IF DateOf(next_slot.start) # DateOf(slots[i + 1].start) THEN FALSE
             ELSE ContiguousFrom(slots, i, j + 1, slots_needed, next_slot.end)

RECURSIVE SearchFrom(_, _, _)
\* the outer while loop of _find_contiguous_slots (i is the 0-based python index)
SearchFrom(slots, i, slots_needed) ==
    IF i <= Len(slots) - slots_needed
    THEN IF ContiguousFrom(slots, i, 1, slots_needed, slots[i + 1].end)
         THEN <<slots[i + 1].start, slots[i + slots_needed].end>>
         ELSE SearchFrom(slots, i + 1, slots_needed)
    ELSE None

\* TimeSlotManager._find_contiguous_slots(slots, slots_needed)
find_contiguous_slots(slots, slots_needed) ==
    IF slots = <<>> THEN None ELSE SearchFrom(slots, 0, slots_needed)

\* slots_needed = max(1, int((duration_hours * 60) / slot_duration_minutes))
SlotsNeeded(duration_min, c) == Max2(1, duration_min \div c.slot_duration_minutes)

\* The caller (schedule_tasks) passes minimum_start_time as a fourth argument; the
\* src version of find_available_slot_range has no such parameter.  Its effect is
\* taken from the specification: the search is bounded below by minimum_start_time.
SlotsFromMinimumStart(slots, minimum_start_time) ==
    IF minimum_start_time = None THEN slots
    ELSE SelectSeq(slots, LAMBDA s : s.start >= minimum_start_time[1])

\* find_available_slot_range with prefer_before as a hard deadline: no second search
find_available_slot_range_hard_deadline(slots, duration_min, prefer_before, minimum_start_time, c) ==
    LET slots_needed == SlotsNeeded(duration_min, c)
        candidates == SlotsFromMinimumStart(slots, minimum_start_time)
        before_slots == SelectSeq(candidates, LAMBDA s : s.start < prefer_before[1])
    IN  IF prefer_before # None
        THEN find_contiguous_slots(before_slots, slots_needed)
        ELSE find_contiguous_slots(candidates, slots_needed)

\* find_available_slot_range with the comparison of the first search inverted: it
\* looks at the slots that start after prefer_before first
find_available_slot_range_after_first(slots, duration_min, prefer_before, minimum_start_time, c) ==
    LET slots_needed == SlotsNeeded(duration_min, c)
        candidates == SlotsFromMinimumStart(slots, minimum_start_time)
        after_slots == SelectSeq(candidates, LAMBDA s : s.start > prefer_before[1])
        result == find_contiguous_slots(after_slots, slots_needed)
    IN  IF prefer_before # None /\ result # None
        THEN result
        ELSE find_contiguous_slots(candidates, slots_needed)

\* TimeSlotManager.find_available_slot_range(slots, duration_hours, prefer_before, minimum_start_time)
find_available_slot_range(slots, duration_min, prefer_before, minimum_start_time, c) ==
    LET slots_needed == SlotsNeeded(duration_min, c)
        candidates == SlotsFromMinimumStart(slots, minimum_start_time)
        before_slots == SelectSeq(candidates, LAMBDA s : s.start < prefer_before[1])
        result == find_contiguous_slots(before_slots, slots_needed)
    IN  IF prefer_before # None /\ result # None
        THEN result
        ELSE find_contiguous_slots(candidates, slots_needed)

-----------------------------------------------------------------------------
(* TaskScheduler: task data and dependencies *)

\* TaskScheduler.extract_task_data: duration_hrs = number or 1.0 (an absent or zero
\* duration becomes one hour); task.duration_hrs = 0 stands for absent or zero
extract_task_data(task) ==
    [id |-> task.id,
     duration_hrs |-> IF task.duration_hrs = 0 THEN 60 ELSE task.duration_hrs,
     due_date |-> task.due_date,
     scheduled_date |-> task.scheduled_date,
     blocking_task_ids |-> task.blocking_task_ids]

\* the ids of task_id_to_data built by _build_dependency_graph
TaskIdsOf(tasks) == {tasks[k].id : k \in 1..Len(tasks)}

\* a dependency graph that keeps only the blocking ids that are in the batch
build_dependency_graph_batch_only(tasks) ==
    [id \in TaskIdsOf(tasks) |->
        LET k == CHOOSE k \in 1..Len(tasks) : tasks[k].id = id
        IN  tasks[k].blocking_task_ids \cap TaskIdsOf(tasks)]

\* TaskScheduler._build_dependency_graph: task id -> blocking task ids
build_dependency_graph(tasks) ==
    [id \in TaskIdsOf(tasks) |->
        LET k == CHOOSE k \in 1..Len(tasks) : tasks[k].id = id
        IN  tasks[k].blocking_task_ids]

\* a resolver that reports no blocking task
resolve_all_blocking_tasks_none(task_id, dependency_graph, visited) == {}

RECURSIVE resolve_all_blocking_tasks(_, _, _)
\* TaskScheduler._resolve_all_blocking_tasks(task_id, dependency_graph, visited)
resolve_all_blocking_tasks(task_id, dependency_graph, visited) ==
    IF task_id \in visited THEN {}
    ELSE LET blocking_tasks == IF task_id \in DOMAIN dependency_graph
                               THEN dependency_graph[task_id] ELSE {}
         IN  blocking_tasks \cup
             UNION {resolve_all_blocking_tasks(blocking_id, dependency_graph,
                                               visited \cup {task_id})
                    : blocking_id \in blocking_tasks}

\* max(blocking_end_times)
MaxOf(S) == CHOOSE x \in S : \A y \in S : y <= x

\* schedule_tasks without the lower bound from the blocking tasks
MinimumStartTime_unbounded(blocking_end_times) == None

\* minimum_start_time = max(blocking_end_times) when there are scheduled blocking tasks
MinimumStartTime(blocking_end_times) ==
    IF blocking_end_times = {} THEN None ELSE <<MaxOf(blocking_end_times)>>

-----------------------------------------------------------------------------
(* TaskScheduler.schedule_tasks: the body of the loop for one task *)

ZeroStats == [scheduled |-> 0, rescheduled |-> 0, skipped |-> 0, errors |-> 0]

\* a schedule_tasks whose error branches count nothing
Bump_errors_uncounted(stats, key) ==
    IF key = "errors" THEN stats ELSE [stats EXCEPT ![key] = @ + 1]

\* stats[key] += 1
Bump(stats, key) == [stats EXCEPT ![key] = @ + 1]

\* What one iteration of "for task in tasks" decides for `task`, given the locals of
\* schedule_tasks (all_slots, scheduled_tasks, the batch) and the occupancy map.
\* update_ok is the result of _update_scheduled_date (the task-store write).
\* A Scheduled Date with a start and no end is read by _get_date_value as a datetime,
\* and task_data["scheduled_date"]["start"] then raises inside the try.
TaskStep(task, tasks, all_slots, scheduled_tasks, occ, c, update_ok) ==
    LET task_data == extract_task_data(task)
        task_id == task_data.id
        dependency_graph == build_dependency_graph(tasks)
        blocking_task_ids == resolve_all_blocking_tasks(task_id, dependency_graph, {})
        scheduled_blockers == blocking_task_ids \cap DOMAIN scheduled_tasks
        blocking_end_times == {scheduled_tasks[b][2] : b \in scheduled_blockers}
        unscheduled_blockers == (blocking_task_ids \ scheduled_blockers) \cap TaskIdsOf(tasks)
        non_schedulable_blockers ==
            (blocking_task_ids \ scheduled_blockers) \ TaskIdsOf(tasks)
        minimum_start_time == MinimumStartTime(blocking_end_times)
        is_reschedule == task_data.scheduled_date # None
        available_slots == get_available_slots(occ, all_slots)
        prefer_before == task_data.due_date
        slot_range == find_available_slot_range(available_slots, task_data.duration_hrs,
                                                prefer_before, minimum_start_time, c)
    IN  IF task_data.duration_hrs = 0
        THEN [outcome |-> "skipped_no_duration", slot_range |-> None]
        ELSE IF non_schedulable_blockers # {}
        THEN [outcome |-> "skipped_non_schedulable_blockers", slot_range |-> None]
        ELSE IF unscheduled_blockers # {}
        THEN [outcome |-> "skipped_unscheduled_blockers", slot_range |-> None]
        ELSE IF Len(task_data.scheduled_date) = 1
        THEN [outcome |-> "error_exception", slot_range |-> None]
        ELSE IF slot_range = None
        THEN [outcome |-> "skipped_no_slots", slot_range |-> None]
        ELSE IF update_ok
        THEN [outcome |-> IF is_reschedule THEN "rescheduled" ELSE "scheduled",
              slot_range |-> slot_range]
        ELSE [outcome |-> "error_update", slot_range |-> slot_range]

\* a schedule_tasks that books the window before it looks at the result of the write
Placed_also_on_failed_write(outcome) == outcome \in {"scheduled", "rescheduled", "error_update"}

\* the task was given its window: the write succeeded, the slots are marked and the
\* task is in scheduled_tasks
Placed(outcome) == outcome \in {"scheduled", "rescheduled"}

\* a schedule_tasks that counts a failed write as a skip
StatsKey_write_failure_as_skip(outcome) ==
    IF outcome \in {"scheduled", "rescheduled"} THEN outcome
    ELSE IF outcome = "error_exception" THEN "errors"
    ELSE "skipped"

\* the stats key an outcome is counted under
StatsKey(outcome) ==
    IF outcome \in {"scheduled", "rescheduled"} THEN outcome
    ELSE IF outcome \in {"error_update", "error_exception"} THEN "errors"
    ELSE "skipped"

-----------------------------------------------------------------------------
(* Bounds and inputs *)

NumTasks == 3            \* tasks in the store, ids 1..NumTasks in ascending rank
MaxEdges == 2            \* "Blocked by" relations in the store
MaxDurationHours == 2    \* longest Est Duration Hrs
MaxCycles == 2           \* scheduling cycles the background loop starts
MaxManualRuns == 1       \* POST /run requests served

\* the configuration of tests/test_scheduling_algorithm.py
TestWorkStartHour == 9
TestWorkEndHour == 13
TestSlotDurationMinutes == 60
TestScheduleDaysAhead == 2

TestConfig ==
    [work_start_hour |-> TestWorkStartHour, work_end_hour |-> TestWorkEndHour,
     slot_duration_minutes |-> TestSlotDurationMinutes,
     schedule_days_ahead |-> TestScheduleDaysAhead]

TaskIds == 1..NumTasks

\* the id of a blocking task that is not schedulable (completed, canceled, unassigned)
ExternalId == NumTasks + 1

\* Monday 08:00 (two full work days ahead), Monday 11:30 (one slot left today)
NowChoices == {8 * 60, 11 * 60 + 30}

DurationChoices == {h * 60 : h \in 1..MaxDurationHours}

\* no due date, or due at midnight after today
DueChoices(clock) == {None, <<ReplaceHour(clock, 0) + MinutesPerDay>>}

\* no Scheduled Date, or the first hour of the first work day that is not over
PriorChoices(c, clock) ==
    LET slots == generate_work_slots(c, clock)
    IN  {None} \cup (IF slots = <<>> THEN {} ELSE {<<slots[1].start, slots[1].start + 60>>})

\* a "Blocked by" relation: <<blocked task, blocking task>>
Edges == TaskIds \X (TaskIds \cup {ExternalId})

RECURSIVE EdgeSets(_)
\* the sets of at most k relations
EdgeSets(k) ==
    IF k = 0 THEN {{}}
    ELSE LET smaller == EdgeSets(k - 1)
         IN  smaller \cup {E \cup {e} : E \in smaller, e \in Edges}

\* task id -> the ids it is blocked by, for every set of at most MaxEdges relations
BlockerGraphs ==
    {[id \in TaskIds |-> {e[2] : e \in {x \in E : x[1] = id}}] : E \in EdgeSets(MaxEdges)}

\* at most one task already has a Scheduled Date
PriorAssignments(c, clock) ==
    {p \in [TaskIds -> PriorChoices(c, clock)] :
        Cardinality({id \in TaskIds : p[id] # None}) <= 1}

Stores(c, clock) ==
    {[id \in TaskIds |->
        [id |-> id, duration_hrs |-> d[id],
         scheduled_date |-> prior[id], blocking_task_ids |-> g[id],
         properties_ok |-> TRUE]]
     : d \in [TaskIds -> DurationChoices],
       prior \in PriorAssignments(c, clock), g \in BlockerGraphs}

-----------------------------------------------------------------------------
(* TaskSchedulerService.run_scheduling_cycle *)

Threads == {"loop", "manual"}

IdleCycle ==
    [pc |-> "idle", runs |-> 0, cycle_start |-> 0, tasks |-> <<>>, i |-> 1,
     all_slots |-> <<>>, scheduled_tasks |-> EmptyDict, stats |-> ZeroStats,
     log |-> EmptyDict, fetch_ok |-> TRUE, last_scheduled_tasks |-> EmptyDict]

NoCall == [op |-> "none"]

\* self.last_run = None, self.last_stats = None
NewService ==
    [last_run |-> None, last_stats |-> None, last_run_cycle |-> None, last_stats_cycle |-> None]

\* the query sorted by Rank descending
fetch_schedulable_tasks_descending(st) == [k \in 1..NumTasks |-> st[NumTasks + 1 - k]]

\* TaskScheduler.fetch_schedulable_tasks: the active tasks, sorted by rank ascending
fetch_schedulable_tasks(st) == [k \in 1..NumTasks |-> st[k]]

\* the cycles a thread starts
CycleBound(th) == IF th = "loop" THEN MaxCycles ELSE MaxManualRuns

\* extract_task_data raises on a page whose "properties" is not a mapping
ExtractRaises(task) == ~ task.properties_ok

\* the stats run_scheduling_cycle returns from its except branch
FailedCycleStats == [scheduled |-> 0, rescheduled |-> 0, skipped |-> 0, errors |-> 1]

\* run_scheduling_cycle up to the loop of schedule_tasks: fetch (a failed query is
\* caught and gives the empty list), return zero stats on an empty batch; otherwise
\* schedule_tasks clears the occupancy map, generates the slots and builds the
\* dependency graph, where a fault of extract_task_data is outside the per-task try
\* and ends the cycle in the except branch of run_scheduling_cycle.
\* fetch_ok and last_scheduled_tasks (the placements of the previous cycle of this
\* thread) are kept for stating properties; the code does not read them.
BeginCycle(th) ==
    /\ cyc[th].pc \in {"idle", "returned"}
    /\ cyc[th].runs < CycleBound(th)
    /\ \E fetch_ok \in BOOLEAN :
         LET tasks == IF fetch_ok THEN fetch_schedulable_tasks(store) ELSE <<>>
             started == [pc |-> "schedule_tasks", runs |-> cyc[th].runs + 1,
                         cycle_start |-> now, tasks |-> tasks, i |-> 1,
                         all_slots |-> generate_work_slots(cfg, now),
                         scheduled_tasks |-> EmptyDict, stats |-> ZeroStats,
                         log |-> EmptyDict, fetch_ok |-> fetch_ok,
                         last_scheduled_tasks |-> cyc[th].scheduled_tasks]
         IN  IF tasks = <<>>
             THEN /\ cyc' = [cyc EXCEPT ![th] =
                               [started EXCEPT !.pc = "returned", !.all_slots = <<>>]]
                  /\ occupied_slots' = occupied_slots
             ELSE IF \E k \in 1..Len(tasks) : ExtractRaises(tasks[k])
             THEN /\ cyc' = [cyc EXCEPT ![th] =
                               [started EXCEPT !.pc = "returned",
                                               !.stats = FailedCycleStats]]
                  /\ occupied_slots' = clear_occupied_slots(occupied_slots)
             ELSE /\ cyc' = [cyc EXCEPT ![th] = started]
                  /\ occupied_slots' = clear_occupied_slots(occupied_slots)
    /\ UNCHANGED <<cfg, now, dry_run, store, svc, call>>

\* the fetched page of a task; its "Due date" property is whatever the owner of the
\* task set, and nothing but the iteration for this task reads it
Page(t, due_date) ==
    [id |-> t.id, duration_hrs |-> t.duration_hrs, due_date |-> due_date,
     scheduled_date |-> t.scheduled_date, blocking_task_ids |-> t.blocking_task_ids]

\* an _update_scheduled_date that reports failure when it skips the write
update_scheduled_date_dry_run_fails(dry, write_ok) == IF dry THEN FALSE ELSE write_ok

\* TaskScheduler._update_scheduled_date: True without a write in a dry run, otherwise
\* whether pages.update succeeded
update_scheduled_date(dry, write_ok) == IF dry THEN TRUE ELSE write_ok

\* one iteration of "for task in tasks" of schedule_tasks
ProcessTask(th) ==
    /\ cyc[th].pc = "schedule_tasks"
    /\ cyc[th].i <= Len(cyc[th].tasks)
    /\ \E write_ok \in BOOLEAN, due_date \in DueChoices(now) :
       \E step \in {TaskStep(Page(cyc[th].tasks[cyc[th].i], due_date), cyc[th].tasks,
                             cyc[th].all_slots, cyc[th].scheduled_tasks,
                             occupied_slots, cfg,
                             update_scheduled_date(dry_run, write_ok))} :
         LET me == cyc[th]
             task_id == me.tasks[me.i].id
         IN  \* write_ok is read only when a write is attempted
             /\ write_ok \/ (step.slot_range # None /\ ~ dry_run)
             /\ cyc' = [cyc EXCEPT ![th] =
                          [me EXCEPT !.i = @ + 1,
                                     !.stats = Bump(@, StatsKey(step.outcome)),
                                     !.log = DictPut(@, task_id, step.outcome),
                                     !.scheduled_tasks =
                                         IF Placed(step.outcome)
                                         THEN DictPut(@, task_id, step.slot_range)
                                         ELSE @]]
             /\ occupied_slots' =
                  IF Placed(step.outcome)
                  THEN mark_slots_occupied(occupied_slots, step.slot_range[1],
                                           step.slot_range[2], task_id, cfg)
                  ELSE occupied_slots
             /\ store' =
                  IF Placed(step.outcome) /\ ~ dry_run
                  THEN [store EXCEPT ![task_id].scheduled_date = step.slot_range]
                  ELSE store
    /\ UNCHANGED <<cfg, now, dry_run, svc, call>>

\* schedule_tasks returns and run_scheduling_cycle assigns self.last_run.
\* last_run_cycle names the cycle that made the assignment (cycles that start at
\* different moments have different cycle_start values).
RecordLastRun(th) ==
    /\ cyc[th].pc = "schedule_tasks"
    /\ cyc[th].i > Len(cyc[th].tasks)
    /\ cyc' = [cyc EXCEPT ![th].pc = "record_last_stats"]
    /\ svc' = [svc EXCEPT !.last_run = <<cyc[th].cycle_start>>,
                          !.last_run_cycle = <<th, cyc[th].runs>>]
    /\ UNCHANGED <<cfg, now, dry_run, store, occupied_slots, call>>

\* run_scheduling_cycle assigns self.last_stats, the next statement, and returns stats
ReturnStats(th) ==
    /\ cyc[th].pc = "record_last_stats"
    /\ cyc' = [cyc EXCEPT ![th].pc = "returned"]
    /\ svc' = [svc EXCEPT !.last_stats = <<cyc[th].stats>>,
                          !.last_stats_cycle = <<th, cyc[th].runs>>]
    /\ UNCHANGED <<cfg, now, dry_run, store, occupied_slots, call>>

Init ==
    /\ cfg = TestConfig
    /\ now \in NowChoices
    /\ dry_run \in BOOLEAN
    /\ store \in Stores(cfg, now)
    /\ occupied_slots = EmptyDict
    /\ cyc = [th \in Threads |-> IdleCycle]
    /\ svc = NewService
    /\ call = NoCall

Next ==
    \/ BeginCycle("loop")
    \/ ProcessTask("loop")
    \/ RecordLastRun("loop")
    \/ ReturnStats("loop")

Spec == Init /\ [][Next]_vars

-----------------------------------------------------------------------------
(* Direct calls of the TimeSlotManager methods, as the archive tests make them *)

MaxSlotsNeeded == 3      \* largest slots_needed passed to _find_contiguous_slots

\* [work_start_hour, work_end_hour, slot_duration_minutes, schedule_days_ahead]:
\* the test configuration, half-hour slots, a slot length that does not divide the
\* work day, and two whose last slot of the day reaches midnight
SlotConfigs ==
    {[work_start_hour |-> c[1], work_end_hour |-> c[2],
      slot_duration_minutes |-> c[3], schedule_days_ahead |-> TestScheduleDaysAhead]
     : c \in {<<TestWorkStartHour, TestWorkEndHour, TestSlotDurationMinutes>>,
              <<9, 11, 30>>, <<9, 11, 45>>, <<21, 23, 100>>, <<0, 13, 720>>}}

\* Monday 08:00, Monday 09:30, Friday 10:00, Saturday 10:00, Sunday 22:00
SlotNowChoices ==
    {8 * 60, 9 * 60 + 30, 4 * MinutesPerDay + 10 * 60, 5 * MinutesPerDay + 10 * 60,
     6 * MinutesPerDay + 22 * 60}

\* duration_hours * 60 of a direct call: 0.4 h, 1 h, 1.5 h, 2 h, 2.5 h
CallDurations == {24, 60, 90, 120, 150}

\* the sub-list of slots at the positions in keep, in the order of slots
SubList(slots, keep) ==
    LET RECURSIVE Pick(_)
        Pick(k) == IF k > Len(slots) THEN <<>>
                   ELSE (IF k \in keep THEN <<slots[k]>> ELSE <<>>) \o Pick(k + 1)
    IN  Pick(1)

\* every list get_available_slots can return for some occupancy of the generated slots
CandidateLists(c, clock) ==
    LET slots == generate_work_slots(c, clock)
    IN  {SubList(slots, keep) : keep \in SUBSET (1..Len(slots))}

\* prefer_before: none, or a slot start or the end of the horizon
PreferBeforeChoices(c, clock) ==
    LET slots == generate_work_slots(c, clock)
    IN  {None} \cup {<<slots[k].start>> : k \in 1..Len(slots)}
        \cup {<<ReplaceHour(clock, 0) + (c.schedule_days_ahead + 1) * MinutesPerDay>>}

CallGenerateWorkSlots ==
    /\ call = NoCall
    /\ call' = [op |-> "generate_work_slots", slots |-> generate_work_slots(cfg, now)]
    /\ UNCHANGED <<cfg, now, dry_run, store, occupied_slots, cyc, svc>>

CallFindContiguousSlots ==
    /\ call = NoCall
    /\ \E slots \in CandidateLists(cfg, now), slots_needed \in 1..MaxSlotsNeeded :
         call' = [op |-> "find_contiguous_slots", slots |-> slots,
                  slots_needed |-> slots_needed,
                  result |-> find_contiguous_slots(slots, slots_needed)]
    /\ UNCHANGED <<cfg, now, dry_run, store, occupied_slots, cyc, svc>>

CallFindAvailableSlotRange ==
    /\ call = NoCall
    /\ \E slots \in CandidateLists(cfg, now), duration_min \in CallDurations,
          prefer_before \in PreferBeforeChoices(cfg, now) :
         call' = [op |-> "find_available_slot_range", slots |-> slots,
                  duration_min |-> duration_min, prefer_before |-> prefer_before,
                  result |-> find_available_slot_range(slots, duration_min, prefer_before,
                                                       None, cfg)]
    /\ UNCHANGED <<cfg, now, dry_run, store, occupied_slots, cyc, svc>>

\* minutes a marked range lasts: 0.4 h, 1 h, 1.5 h
MarkDurations == {24, 60, 90}

\* start_time of a marked range: a slot start, or a quarter of an hour after one
MarkStarts(c, clock) ==
    LET slots == generate_work_slots(c, clock)
    IN  UNION {{slots[k].start, slots[k].start + 15} : k \in 1..Len(slots)}

\* the (start_time, end_time) ranges a test marks before it asks for the available slots
MarkChoices(c, clock) ==
    {<<s, s + d>> : s \in MarkStarts(c, clock), d \in MarkDurations}

\* mark_slots_occupied for one or two ranges, then get_available_slots(all_slots)
CallGetAvailableSlots ==
    /\ call = NoCall
    /\ \E first \in MarkChoices(cfg, now), second \in {None} \cup {<<r>> : r \in MarkChoices(cfg, now)} :
         LET all_slots == generate_work_slots(cfg, now)
             occ1 == mark_slots_occupied(occupied_slots, first[1], first[2], 1, cfg)
             occ2 == IF second = None THEN occ1
                     ELSE mark_slots_occupied(occ1, second[1][1], second[1][2], 2, cfg)
         IN  /\ occupied_slots' = occ2
             /\ call' = [op |-> "get_available_slots", all_slots |-> all_slots,
                         result |-> get_available_slots(occ2, all_slots)]
    /\ UNCHANGED <<cfg, now, dry_run, store, cyc, svc>>

SlotInit ==
    /\ cfg \in SlotConfigs
    /\ now \in SlotNowChoices
    /\ dry_run = FALSE
    /\ store = EmptyDict
    /\ occupied_slots = EmptyDict
    /\ cyc = [th \in Threads |-> IdleCycle]
    /\ svc = NewService
    /\ call = NoCall

SlotNext ==
    \/ CallGenerateWorkSlots
    \/ CallFindContiguousSlots
    \/ CallFindAvailableSlotRange
    \/ CallGetAvailableSlots

SlotSpec == SlotInit /\ [][SlotNext]_vars

-----------------------------------------------------------------------------
(* The background loop and a manual POST /run, each running run_scheduling_cycle *)

\* stores without "Blocked by" relations and without Scheduled Dates, all tasks of
\* one duration
ConcStores ==
    {[id \in TaskIds |->
        [id |-> id, duration_hrs |-> d,
         scheduled_date |-> None, blocking_task_ids |-> {}, properties_ok |-> TRUE]]
     : d \in DurationChoices}

ConcInit ==
    /\ cfg = TestConfig
    /\ now \in NowChoices
    /\ dry_run = FALSE
    /\ store \in ConcStores
    /\ occupied_slots = EmptyDict
    /\ cyc = [th \in Threads |-> IdleCycle]
    /\ svc = NewService
    /\ call = NoCall

ConcNext ==
    \/ BeginCycle("loop")
    \/ ProcessTask("loop")
    \/ RecordLastRun("loop")
    \/ ReturnStats("loop")
    \/ BeginCycle("manual")
    \/ ProcessTask("manual")
    \/ RecordLastRun("manual")
    \/ ReturnStats("manual")

ConcSpec == ConcInit /\ [][ConcNext]_vars

-----------------------------------------------------------------------------
(* GET /status on the event loop while the background loop runs its cycles in a
   worker thread *)

MaxStatusQueries == 2    \* GET /status requests served

\* get_status evaluates "last_run": self.last_run.isoformat() if self.last_run else None
GetStatusReadLastRun ==
    /\ \/ call = NoCall
       \/ call.op = "get_status" /\ call.pc = "done" /\ call.n < MaxStatusQueries
    /\ call' = [op |-> "get_status", pc |-> "read_last_stats",
                n |-> IF call = NoCall THEN 1 ELSE call.n + 1,
                last_run |-> svc.last_run, last_run_cycle |-> svc.last_run_cycle,
                last_stats |-> EmptyDict, last_stats_cycle |-> None]
    /\ UNCHANGED <<cfg, now, dry_run, store, occupied_slots, cyc, svc>>

\* get_status evaluates "last_stats": self.last_stats or {} and returns the dict
GetStatusReturn ==
    /\ call.op = "get_status"
    /\ call.pc = "read_last_stats"
    /\ call' = [call EXCEPT !.pc = "done",
                            !.last_stats = IF svc.last_stats = None THEN EmptyDict
                                           ELSE svc.last_stats[1],
                            !.last_stats_cycle = svc.last_stats_cycle]
    /\ UNCHANGED <<cfg, now, dry_run, store, occupied_slots, cyc, svc>>

StatusInit ==
    /\ cfg = TestConfig
    /\ now \in NowChoices
    /\ dry_run = FALSE
    /\ store \in ConcStores
    /\ occupied_slots = EmptyDict
    /\ cyc = [th \in Threads |-> IdleCycle]
    /\ svc = NewService
    /\ call = NoCall

StatusNext ==
    \/ BeginCycle("loop")
    \/ ProcessTask("loop")
    \/ RecordLastRun("loop")
    \/ ReturnStats("loop")
    \/ GetStatusReadLastRun
    \/ GetStatusReturn

StatusSpec == StatusInit /\ [][StatusNext]_vars

-----------------------------------------------------------------------------
(* TaskScheduler._resolve_all_blocking_tasks, one call and one return at a time *)

MaxResolveEdges == 3     \* "Blocked by" relations in a graph the resolver is run on

\* stores of one-hour tasks with every set of at most MaxResolveEdges relations
ResolveStores ==
    {[id \in TaskIds |->
        [id |-> id, duration_hrs |-> 60, scheduled_date |-> None,
         blocking_task_ids |-> {e[2] : e \in {x \in E : x[1] = id}},
         properties_ok |-> TRUE]]
     : E \in EdgeSets(MaxResolveEdges)}

\* dependency_graph.get(task_id, [])
GraphGet(dependency_graph, task_id) ==
    IF task_id \in DOMAIN dependency_graph THEN dependency_graph[task_id] ELSE {}

\* a resolver that never finds a task visited
Revisited_never(task_id, visited) == FALSE

\* "if task_id in visited"
Revisited(task_id, visited) == task_id \in visited

\* a resolver that drops what the recursive calls return
UpdateAllBlocking_direct_only(all_blocking, transitive_blocking) == all_blocking

\* all_blocking.update(transitive_blocking)
UpdateAllBlocking(all_blocking, transitive_blocking) == all_blocking \cup transitive_blocking

\* the locals of a call that passed the visited test: visited after visited.add,
\* the blocking ids the for loop has still to take, and all_blocking
Frame(task_id, dependency_graph, visited) ==
    [task_id |-> task_id, visited |-> visited \cup {task_id},
     pending |-> GraphGet(dependency_graph, task_id),
     all_blocking |-> GraphGet(dependency_graph, task_id)]

\* the for loop takes the blocking ids in the order of the list
NextPending(frame) == CHOOSE b \in frame.pending : \A other \in frame.pending : b <= other

\* schedule_tasks calls _resolve_all_blocking_tasks(task_id, dependency_graph)
ResolveStart ==
    /\ call = NoCall
    /\ \E task_id \in TaskIds :
         LET dependency_graph == build_dependency_graph(fetch_schedulable_tasks(store))
         IN  call' = [op |-> "resolve_all_blocking_tasks", task_id |-> task_id,
                      dependency_graph |-> dependency_graph,
                      stack |-> <<Frame(task_id, dependency_graph, {})>>,
                      cycle_warned |-> FALSE, result |-> None]
    /\ UNCHANGED <<cfg, now, dry_run, store, occupied_slots, cyc, svc>>

\* the for loop of the innermost call makes the recursive call for its next blocking
\* id, with a copy of visited: the call returns [] at once if the id is visited,
\* otherwise it becomes the innermost call
ResolveRecurse ==
    /\ call.op = "resolve_all_blocking_tasks"
    /\ call.result = None
    /\ call.stack[Len(call.stack)].pending # {}
    /\ LET top == Len(call.stack)
           frame == call.stack[top]
           blocking_id == NextPending(frame)
           taken == [frame EXCEPT !.pending = @ \ {blocking_id}]
       IN  IF Revisited(blocking_id, frame.visited)
           THEN call' = [call EXCEPT !.stack = [@ EXCEPT ![top] = taken],
                                     !.cycle_warned = TRUE]
           ELSE call' = [call EXCEPT !.stack =
                            Append([@ EXCEPT ![top] = taken],
                                   Frame(blocking_id, call.dependency_graph, frame.visited))]
    /\ UNCHANGED <<cfg, now, dry_run, store, occupied_slots, cyc, svc>>

\* the innermost call has taken all its blocking ids and returns list(all_blocking),
\* to the for loop of its caller or, for the outermost call, to schedule_tasks
ResolveReturn ==
    /\ call.op = "resolve_all_blocking_tasks"
    /\ call.result = None
    /\ call.stack[Len(call.stack)].pending = {}
    /\ LET top == Len(call.stack)
           returned == call.stack[top].all_blocking
       IN  IF top = 1
           THEN call' = [call EXCEPT !.result = <<returned>>]
           ELSE call' = [call EXCEPT !.stack =
                            [SubSeq(@, 1, top - 1) EXCEPT ![top - 1].all_blocking =
                                UpdateAllBlocking(@, returned)]]
    /\ UNCHANGED <<cfg, now, dry_run, store, occupied_slots, cyc, svc>>

ResolveInit ==
    /\ cfg = TestConfig
    /\ now = 8 * 60
    /\ dry_run = FALSE
    /\ store \in ResolveStores
    /\ occupied_slots = EmptyDict
    /\ cyc = [th \in Threads |-> IdleCycle]
    /\ svc = NewService
    /\ call = NoCall

ResolveNext ==
    \/ ResolveStart
    \/ ResolveRecurse
    \/ ResolveReturn

ResolveSpec == ResolveInit /\ [][ResolveNext]_vars

\* the interpreter runs a call that has been made until it returns
ResolveLiveSpec == ResolveSpec /\ WF_vars(ResolveRecurse \/ ResolveReturn)

-----------------------------------------------------------------------------
(* Properties of a scheduling cycle of the background loop *)

\* two (start, end) ranges share some time
RangesOverlap(r1, r2) == r1[1] < r2[2] /\ r1[2] > r2[1]

\* the ids placed by the loop's cycle so far
PlacedIds == DOMAIN cyc["loop"].scheduled_tasks

\* the window the loop's cycle gave to a placed task
Window(id) == cyc["loop"].scheduled_tasks[id]

CycleReturned == cyc["loop"].pc = "returned"

\* C1: at the end of a schedule_tasks cycle no two occupancy-map entries held by
\* distinct task ids overlap in time, where the entries a placed task holds are all
\* the slots of the window it was given.
C1_NonOverlap ==
    CycleReturned =>
        /\ \A s1 \in DOMAIN occupied_slots, s2 \in DOMAIN occupied_slots :
             occupied_slots[s1] # occupied_slots[s2] => ~ slots_overlap(s1, s2)
        /\ \A id \in PlacedIds :
             \A k \in 1..Len(cyc["loop"].all_slots) :
                LET slot == cyc["loop"].all_slots[k]
                IN  RangesOverlap(<<slot.start, slot.end>>, Window(id))
                    => slot \in DOMAIN occupied_slots /\ occupied_slots[slot] = id

\* a cycle has returned after placing three tasks, one of them on two slots
C1_Witness ==
    /\ CycleReturned
    /\ Cardinality(PlacedIds) = 3
    /\ Cardinality({occupied_slots[s] : s \in DOMAIN occupied_slots}) = 3
    /\ \E id \in PlacedIds : Window(id)[2] - Window(id)[1] = 2 * cfg.slot_duration_minutes

\* every task that blocks id, directly or transitively, in the loop's batch
ResolvedBlockers(id) ==
    resolve_all_blocking_tasks(id, build_dependency_graph(cyc["loop"].tasks), {})

\* C2: when task A blocks task B, directly or transitively, and both are placed in
\* the same cycle, B's window starts no earlier than A's window ends.
C2_DependencyOrdering ==
    \A b \in PlacedIds :
        \A a \in ResolvedBlockers(b) \cap PlacedIds : Window(b)[1] >= Window(a)[2]

\* a chain of three tasks, all placed, where the last one would have fitted earlier:
\* the blocking task ends on the next day and a slot of today is still free
C2_Witness ==
    /\ CycleReturned
    /\ \E a \in PlacedIds, b \in PlacedIds, c \in PlacedIds :
         /\ a \in store[b].blocking_task_ids
         /\ b \in store[c].blocking_task_ids
         /\ a \notin store[c].blocking_task_ids
         /\ DateOf(Window(a)[1]) > DateOf(now)
         /\ \E k \in 1..Len(cyc["loop"].all_slots) :
              /\ DateOf(cyc["loop"].all_slots[k].start) = DateOf(now)
              /\ cyc["loop"].all_slots[k] \notin DOMAIN occupied_slots

\* the task was skipped in the loop's cycle because of a blocking task
SkippedOnBlocker(id) ==
    /\ id \in DOMAIN cyc["loop"].log
    /\ cyc["loop"].log[id] \in {"skipped_non_schedulable_blockers",
                                "skipped_unscheduled_blockers"}

\* C3: a task that has a prior window and is skipped because of a blocking task keeps
\* that window: no task placed later in the cycle is given time inside it.
C3_SkippedKeepsWindow ==
    \A id \in TaskIds :
        SkippedOnBlocker(id) /\ store[id].scheduled_date # None
        => \A other \in PlacedIds \ {id} :
              ~ RangesOverlap(Window(other), store[id].scheduled_date)

\* the batch holds no blocking relation
NoBlockingRelations ==
    \A k \in 1..Len(cyc["loop"].tasks) : cyc["loop"].tasks[k].blocking_task_ids = {}

\* slots the task with this id needs
NeededBy(id) == SlotsNeeded(extract_task_data(Page(store[id], None)).duration_hrs, cfg)

\* the generated slots are enough for the slots all tasks of the batch need together
EnoughCapacity ==
    LET RECURSIVE Sum(_)
        Sum(k) == IF k = 0 THEN 0 ELSE NeededBy(cyc["loop"].tasks[k].id) + Sum(k - 1)
    IN  Sum(Len(cyc["loop"].tasks)) <= Len(cyc["loop"].all_slots)

\* the task had no Scheduled Date and was placed in the loop's cycle
NewlyPlaced(id) ==
    id \in DOMAIN cyc["loop"].log /\ cyc["loop"].log[id] = "scheduled"

\* C10 as stated: without blocking relations and with enough free capacity, of two
\* newly placed tasks the one with the smaller rank starts no later.
C10_RankMonotone ==
    CycleReturned /\ NoBlockingRelations /\ EnoughCapacity
    => \A i \in TaskIds, j \in TaskIds :
          i < j /\ NewlyPlaced(i) /\ NewlyPlaced(j) => Window(i)[1] <= Window(j)[1]

\* C10 amended: the same, when the task with the smaller rank needs no more slots
\* than the task with the larger rank.
C10_RankMonotoneSameNeed ==
    CycleReturned /\ NoBlockingRelations /\ EnoughCapacity
    => \A i \in TaskIds, j \in TaskIds :
          i < j /\ NewlyPlaced(i) /\ NewlyPlaced(j) /\ NeededBy(i) <= NeededBy(j)
          => Window(i)[1] <= Window(j)[1]

\* three newly placed tasks without blocking relations, the first needing fewer
\* slots than the last and the last starting on a later day
C10_Witness ==
    /\ CycleReturned /\ NoBlockingRelations /\ EnoughCapacity
    /\ \A id \in TaskIds : NewlyPlaced(id)
    /\ NeededBy(1) < NeededBy(NumTasks)
    /\ DateOf(Window(1)[1]) < DateOf(Window(NumTasks)[1])

\* C4: run_scheduling_cycle is never executing in two threads at once.
C4_SingleFlight ==
    Cardinality({th \in Threads : cyc[th].pc = "schedule_tasks"}) <= 1

-----------------------------------------------------------------------------
(* Properties of direct calls of the TimeSlotManager methods *)

\* slots[i .. i + n - 1] is a run: each slot starts where the previous one ends and
\* every slot starts on the calendar day the first one starts on
ValidRunAt(slots, i, n) ==
    /\ i + n - 1 <= Len(slots)
    /\ \A k \in 1..(n - 1) :
         /\ slots[i + k].start = slots[i + k - 1].end
         /\ DateOf(slots[i + k].start) = DateOf(slots[i].start)

\* the positions of slots at which a run of n slots begins
RunStarts(slots, n) == {i \in 1..Len(slots) : ValidRunAt(slots, i, n)}

\* C5: every range _find_contiguous_slots returns has its start and its end on the
\* same calendar date.
C5_RangeOnOneDate ==
    call.op = "find_contiguous_slots" /\ call.result # None
    => DateOf(call.result[1]) = DateOf(call.result[2])

\* C6: every slot generate_work_slots returns lies on a weekday, starts at or after
\* work_start_hour and ends at or before work_end_hour of its day.
C6_SlotsWithinWorkHours ==
    call.op = "generate_work_slots"
    => \A k \in 1..Len(call.slots) :
          LET slot == call.slots[k]
          IN  /\ Weekday(slot.start) < 5
              /\ slot.start >= ReplaceHour(slot.start, cfg.work_start_hour)
              /\ slot.end <= ReplaceHour(slot.start, cfg.work_end_hour)

\* C7: find_available_slot_range returns None only if the full candidate list holds
\* no run of the required length, whatever prefer_before is; if it holds one, a range
\* is returned.
C7_DueDateIsSoft ==
    call.op = "find_available_slot_range"
    => (call.result = None
        <=> RunStarts(call.slots, SlotsNeeded(call.duration_min, cfg)) = {})

\* a call with a due date before which no run exists, answered with a later range
C7_Witness ==
    /\ call.op = "find_available_slot_range"
    /\ call.prefer_before # None
    /\ call.result # None
    /\ call.result[1] >= call.prefer_before[1]
    /\ \E k \in 1..Len(call.slots) : call.slots[k].start < call.prefer_before[1]

CeilSlots(duration_min, c) ==
    Max2(1, (duration_min + c.slot_duration_minutes - 1) \div c.slot_duration_minutes)

\* C9: the range find_available_slot_range returns spans
\* ceil(duration_hours * 60 / slot_duration_minutes) slots, at least one.
C9_SlotCountIsCeiling ==
    call.op = "find_available_slot_range" /\ call.result # None
    => call.result[2] - call.result[1]
       = CeilSlots(call.duration_min, cfg) * cfg.slot_duration_minutes

-----------------------------------------------------------------------------
(* Properties of two successive cycles of the background loop *)

\* the loop is in its second cycle, which fetched the batch the first cycle left
InSecondCycle == cyc["loop"].runs = 2 /\ cyc["loop"].fetch_ok

\* the windows the loop's previous cycle gave
LastWindow(id) == cyc["loop"].last_scheduled_tasks[id]

-----------------------------------------------------------------------------
(* Cycles on batches with defective pages *)

\* Est Duration Hrs absent or zero (0), or a number of hours
FaultDurationChoices == {0} \cup DurationChoices

\* no Scheduled Date, the first hour of the first work day that is not over, or that
\* start without an end
FaultPriorChoices(c, clock) ==
    LET slots == generate_work_slots(c, clock)
    IN  PriorChoices(c, clock) \cup (IF slots = <<>> THEN {} ELSE {<<slots[1].start>>})

\* stores without "Blocked by" relations where at most one task has a Scheduled Date
\* and at most one page has no readable properties
FaultStores(c, clock) ==
    {[id \in TaskIds |->
        [id |-> id, duration_hrs |-> d[id],
         scheduled_date |-> IF id = p[1] THEN p[2] ELSE None,
         blocking_task_ids |-> {}, properties_ok |-> id # bad]]
     : d \in [TaskIds -> FaultDurationChoices],
       p \in (TaskIds \X FaultPriorChoices(c, clock)),
       bad \in TaskIds \cup {ExternalId}}

FaultInit ==
    /\ cfg = TestConfig
    /\ now \in NowChoices
    /\ dry_run = FALSE
    /\ store \in FaultStores(cfg, now)
    /\ occupied_slots = EmptyDict
    /\ cyc = [th \in Threads |-> IdleCycle]
    /\ svc = NewService
    /\ call = NoCall

FaultSpec == FaultInit /\ [][Next]_vars

\* handling the task raises: its page has no readable properties, or its Scheduled
\* Date has a start and no end
Faults(task) == ExtractRaises(task) \/ Len(task.scheduled_date) = 1

\* C12: a fault raised while handling one task of the batch is caught at that task:
\* the cycle returns its statistics normally with every task of the batch handled,
\* the faulting tasks - and only failed handlings - counted once each as errors.
C12_FaultIsolatedToTask ==
    CycleReturned /\ cyc["loop"].fetch_ok
    => /\ \A k \in 1..Len(cyc["loop"].tasks) :
            LET task == cyc["loop"].tasks[k]
            IN  /\ task.id \in DOMAIN cyc["loop"].log
                /\ Faults(task) => cyc["loop"].log[task.id] = "error_exception"
       /\ cyc["loop"].stats.errors =
            Cardinality({id \in DOMAIN cyc["loop"].log :
                           cyc["loop"].log[id] \in {"error_exception", "error_update"}})
       /\ svc.last_stats = <<cyc["loop"].stats>>

-----------------------------------------------------------------------------
(* Properties of the outcomes and statistics of a cycle *)

\* the tasks the loop's cycle has handled so far with one of the outcomes
LoggedAs(outcomes) ==
    {id \in DOMAIN cyc["loop"].log : cyc["loop"].log[id] \in outcomes}

\* the Scheduled Date the task had when the loop's cycle fetched the batch
FetchedScheduledDate(id) ==
    LET k == CHOOSE k \in 1..Len(cyc["loop"].tasks) : cyc["loop"].tasks[k].id = id
    IN  cyc["loop"].tasks[k].scheduled_date

\* C13: a task whose task-store write fails is counted as exactly one error and not
\* as scheduled or rescheduled, it is given no window and its Scheduled Date stays as
\* fetched; the cycle goes on with the remaining tasks and returns its statistics.
C13_WriteFailureIsOneError ==
    /\ cyc["loop"].stats.errors = Cardinality(LoggedAs({"error_update"}))
    /\ cyc["loop"].stats.scheduled = Cardinality(LoggedAs({"scheduled"}))
    /\ cyc["loop"].stats.rescheduled = Cardinality(LoggedAs({"rescheduled"}))
    /\ \A id \in LoggedAs({"error_update"}) :
         /\ id \notin PlacedIds
         /\ store[id].scheduled_date = FetchedScheduledDate(id)
         /\ \A slot \in DOMAIN occupied_slots : occupied_slots[slot] # id
    /\ CycleReturned /\ cyc["loop"].fetch_ok
       => /\ DOMAIN cyc["loop"].log = TaskIdsOf(cyc["loop"].tasks)
          /\ svc.last_stats = <<cyc["loop"].stats>>

\* the write for the first task failed and the two tasks after it were placed, the
\* second of them on the slot the first task had been offered
C13_Witness ==
    /\ CycleReturned
    /\ cyc["loop"].runs = 1
    /\ DOMAIN cyc["loop"].log = TaskIds
    /\ cyc["loop"].log[1] = "error_update"
    /\ cyc["loop"].log[2] = "scheduled"
    /\ cyc["loop"].log[3] = "rescheduled"
    /\ Window(2)[1] = cyc["loop"].all_slots[1].start
    /\ cyc["loop"].stats = [scheduled |-> 1, rescheduled |-> 1, skipped |-> 0, errors |-> 1]

\* C14: when the fetch of the batch fails, run_scheduling_cycle handles no task and
\* returns zero scheduled, rescheduled and skipped counts and an errors count above
\* zero.
C14_FailedFetchCountsError ==
    CycleReturned /\ ~ cyc["loop"].fetch_ok
    => /\ cyc["loop"].log = EmptyDict
       /\ cyc["loop"].stats.scheduled = 0
       /\ cyc["loop"].stats.rescheduled = 0
       /\ cyc["loop"].stats.skipped = 0
       /\ cyc["loop"].stats.errors > 0

-----------------------------------------------------------------------------
(* Dry run against a cycle whose writes all succeed *)

RECURSIVE ScheduleFrom(_, _, _, _, _, _)
\* the loop of schedule_tasks from the k-th task on when every write succeeds, on the
\* batch `tasks` with the due dates `dues`: the placements, the occupancy map and the
\* statistics it ends with
ScheduleFrom(k, tasks, dues, all_slots, c, acc) ==
    IF k > Len(tasks) THEN acc
    ELSE LET step == TaskStep(Page(tasks[k], dues[k]), tasks, all_slots,
                              acc.scheduled_tasks, acc.occupied_slots, c, TRUE)
             id == tasks[k].id
         IN  ScheduleFrom(k + 1, tasks, dues, all_slots, c,
                 [scheduled_tasks |->
                      IF Placed(step.outcome)
                      THEN DictPut(acc.scheduled_tasks, id, step.slot_range)
                      ELSE acc.scheduled_tasks,
                  occupied_slots |->
                      IF Placed(step.outcome)
                      THEN mark_slots_occupied(acc.occupied_slots, step.slot_range[1],
                                               step.slot_range[2], id, c)
                      ELSE acc.occupied_slots,
                  stats |-> Bump(acc.stats, StatsKey(step.outcome))])

\* schedule_tasks(tasks) without dry run, every write succeeding
ScheduleAllWritesSucceed(tasks, dues, all_slots, c) ==
    ScheduleFrom(1, tasks, dues, all_slots, c,
                 [scheduled_tasks |-> EmptyDict, occupied_slots |-> EmptyDict,
                  stats |-> ZeroStats])

\* C15: in a dry run the task store is never written, and a cycle ends with the
\* placements, the occupancy map and the statistics of a cycle without dry run on the
\* same batch (whatever its due dates) in which every write succeeds.
C15_DryRunSameResult ==
    dry_run
    => /\ \A k \in 1..Len(cyc["loop"].tasks) :
            store[cyc["loop"].tasks[k].id] = cyc["loop"].tasks[k]
       /\ CycleReturned /\ cyc["loop"].fetch_ok
          => \A dues \in [1..Len(cyc["loop"].tasks) -> DueChoices(now)] :
                [scheduled_tasks |-> cyc["loop"].scheduled_tasks,
                 occupied_slots |-> occupied_slots,
                 stats |-> cyc["loop"].stats]
                = ScheduleAllWritesSucceed(cyc["loop"].tasks, dues,
                                           cyc["loop"].all_slots, cfg)

\* a dry run has returned with one task rescheduled, one scheduled and one skipped,
\* and the placed tasks still have the Scheduled Date they were fetched with
C15_Witness ==
    /\ dry_run
    /\ CycleReturned /\ cyc["loop"].fetch_ok
    /\ cyc["loop"].stats = [scheduled |-> 1, rescheduled |-> 1, skipped |-> 1, errors |-> 0]
    /\ \E id \in PlacedIds : store[id].scheduled_date = None
    /\ \E id \in PlacedIds :
         store[id].scheduled_date # None /\ store[id].scheduled_date # Window(id)

\* C16: a task whose Est Duration Hrs is absent or zero is counted as skipped by
\* every cycle that handles it, is given no window and holds no slot.
C16_NoDurationIsSkipped ==
    \A id \in DOMAIN cyc["loop"].log :
        store[id].duration_hrs = 0
        => /\ cyc["loop"].log[id] = "skipped_no_duration"
           /\ id \notin PlacedIds
           /\ \A slot \in DOMAIN occupied_slots : occupied_slots[slot] # id

-----------------------------------------------------------------------------
(* Properties of the blocking relations of the batch *)

RECURSIVE BlockedByClosure(_)
\* the least set that contains S and every id a task of S in the store is blocked by
BlockedByClosure(S) ==
    LET more == S \cup UNION {store[id].blocking_task_ids : id \in S \cap TaskIds}
    IN  IF more = S THEN S ELSE BlockedByClosure(more)

\* every id that blocks the task directly or through other tasks
TransitiveBlockers(id) == BlockedByClosure(store[id].blocking_task_ids)

\* some generated slot is held by no task
SomeSlotFree ==
    \E k \in 1..Len(cyc["loop"].all_slots) :
        cyc["loop"].all_slots[k] \notin DOMAIN occupied_slots

\* C17: a task that is blocked, directly or transitively, by an id that is not in the
\* batch is counted as skipped for that reason, is given no window and holds no slot.
C17_BlockerOutsideBatchSkips ==
    \A id \in DOMAIN cyc["loop"].log :
        (TransitiveBlockers(id) \ TaskIdsOf(cyc["loop"].tasks)) # {}
        => /\ cyc["loop"].log[id] = "skipped_non_schedulable_blockers"
           /\ id \notin PlacedIds
           /\ \A slot \in DOMAIN occupied_slots : occupied_slots[slot] # id

\* the last task is blocked by the first, which was placed, and by an id outside the
\* batch; it was skipped although slots are free
C17_Witness ==
    /\ CycleReturned
    /\ store[NumTasks].blocking_task_ids = {1, ExternalId}
    /\ 1 \in PlacedIds
    /\ NumTasks \in DOMAIN cyc["loop"].log
    /\ cyc["loop"].log[NumTasks] = "skipped_non_schedulable_blockers"
    /\ SomeSlotFree

\* the task is blocked only by tasks of the batch, is on no dependency cycle, and one
\* of the tasks it is blocked by has a larger rank
HasLaterRankedBlocker(id) ==
    /\ TransitiveBlockers(id) \subseteq TaskIds \ {id}
    /\ \A b \in TransitiveBlockers(id) : b \notin TransitiveBlockers(b)
    /\ \E b \in store[id].blocking_task_ids : b > id

\* C18: a task with a later-ranked blocker, deferred in the first cycle, is placed in
\* the second cycle once every task that blocks it was placed by the first, the batch
\* being unchanged, the capacity sufficient and no write failing.
C18_DeferredTaskPlacedInNextCycle ==
    /\ InSecondCycle /\ CycleReturned
    /\ cyc["loop"].stats.errors = 0
    /\ EnoughCapacity
    => \A id \in TaskIds :
          /\ HasLaterRankedBlocker(id)
          /\ TransitiveBlockers(id) \subseteq DOMAIN cyc["loop"].last_scheduled_tasks
          => id \in PlacedIds

\* the task is on a dependency cycle and everything that blocks it is on that cycle
BlockedOnlyThroughCycle(id) ==
    /\ id \in TransitiveBlockers(id)
    /\ \A b \in TransitiveBlockers(id) : b \in TaskIds /\ id \in TransitiveBlockers(b)

\* C19: a task on a dependency cycle (a self-loop, two tasks blocking each other, or
\* a longer loop) that nothing else blocks is not skipped as blocked and is not
\* counted as an error.
C19_CyclicEdgeNonBinding ==
    \A id \in DOMAIN cyc["loop"].log :
        BlockedOnlyThroughCycle(id)
        => cyc["loop"].log[id] \notin {"skipped_unscheduled_blockers",
                                        "skipped_non_schedulable_blockers",
                                        "error_exception"}

-----------------------------------------------------------------------------
(* Properties of the slots a cycle works with *)

\* C20: no slot generated for a cycle starts before the moment the cycle generated
\* its slots, so every window the cycle gives starts at or after that moment.
C20_NoPlacementInThePast ==
    /\ \A k \in 1..Len(cyc["loop"].all_slots) :
         cyc["loop"].all_slots[k].start >= cyc["loop"].cycle_start
    /\ \A id \in PlacedIds : Window(id)[1] >= cyc["loop"].cycle_start

\* the cycle started at 11:30 on a work day: the slots of 09:00, 10:00 and 11:00 are
\* left out and a task was placed at 12:00
C20_Witness ==
    /\ CycleReturned
    /\ HourOf(cyc["loop"].cycle_start) = 11 /\ cyc["loop"].cycle_start % 60 = 30
    /\ Len(cyc["loop"].all_slots) > 0
    /\ cyc["loop"].all_slots[1].start = ReplaceHour(cyc["loop"].cycle_start, 12)
    /\ \E id \in PlacedIds : Window(id)[1] = ReplaceHour(cyc["loop"].cycle_start, 12)

-----------------------------------------------------------------------------
(* Properties of the occupancy filter *)

\* the occupied entry covers some minute of the slot
SharesTime(slot, entry) == slot.start < entry.end /\ slot.end > entry.start

\* the positions of all_slots whose slot shares no time with any occupied entry
FreePositions(all_slots) ==
    {k \in 1..Len(all_slots) :
        \A entry \in DOMAIN occupied_slots : ~ SharesTime(all_slots[k], entry)}

\* C21: get_available_slots returns, in input order, exactly the input slots that
\* overlap no entry of the occupancy map; a slot that only touches an entry stays,
\* a slot an entry covers in part is left out.
C21_AvailableAreTheFreeSlots ==
    call.op = "get_available_slots"
    => /\ call.result = SubList(call.all_slots, FreePositions(call.all_slots))
       /\ \A k \in 1..Len(call.all_slots) :
            LET slot == call.all_slots[k]
                kept == \E j \in 1..Len(call.result) : call.result[j] = slot
            IN  /\ (\E entry \in DOMAIN occupied_slots :
                       entry.start > slot.start /\ entry.start < slot.end) => ~ kept
                /\ (\A entry \in DOMAIN occupied_slots :
                       entry.end <= slot.start \/ entry.start >= slot.end) => kept

\* one slot is left out for an entry that begins inside it, and a slot that begins
\* where an entry ends is returned
C21_Witness ==
    /\ call.op = "get_available_slots"
    /\ \E k \in 1..Len(call.all_slots), entry \in DOMAIN occupied_slots :
         /\ entry.start > call.all_slots[k].start
         /\ entry.end < call.all_slots[k].end
         /\ \A j \in 1..Len(call.result) : call.result[j] # call.all_slots[k]
    /\ \E j \in 1..Len(call.result), entry \in DOMAIN occupied_slots :
         call.result[j].start = entry.end

-----------------------------------------------------------------------------
(* Properties of the occupancy map across cycles *)

\* the entry was inserted by mark_slots_occupied for a task placed in the current cycle
InsertedInThisCycle(entry) ==
    LET owner == occupied_slots[entry]
    IN  /\ owner \in PlacedIds
        /\ Window(owner)[1] <= entry.start
        /\ entry.end <= Window(owner)[2]

\* the loop of schedule_tasks is about to process its first task
PlacementPhaseStarts == cyc["loop"].pc = "schedule_tasks" /\ cyc["loop"].i = 1

-----------------------------------------------------------------------------
(* Properties of the statistics a cycle returns *)

\* the tasks the cycle placed that had no Scheduled Date when they were fetched
PlacedNew == {id \in PlacedIds : FetchedScheduledDate(id) = None}

\* the tasks the cycle placed at a window other than the Scheduled Date they had
PlacedMoved ==
    {id \in PlacedIds : FetchedScheduledDate(id) # None /\ FetchedScheduledDate(id) # Window(id)}

\* C23: in the statistics of a returned cycle, "scheduled" is the number of placed
\* tasks that had no prior window and "rescheduled" is the number of placed tasks
\* whose prior window was moved to a different (start, end).
C23_StatsCountNewAndMoved ==
    CycleReturned /\ cyc["loop"].tasks # <<>>
    => /\ cyc["loop"].stats.scheduled = Cardinality(PlacedNew)
       /\ cyc["loop"].stats.rescheduled = Cardinality(PlacedMoved)

-----------------------------------------------------------------------------
(* Properties of the resolution of blocking tasks *)

\* no task of the store is reachable from itself by "blocked by" relations
Acyclic == \A id \in TaskIds : id \notin TransitiveBlockers(id)

ResolveReturned == call.op = "resolve_all_blocking_tasks" /\ call.result # None

\* C24: on an acyclic dependency graph _resolve_all_blocking_tasks returns exactly
\* the ids reachable from the task by one or more "blocked by" relations, ids that
\* are not keys of the graph included, and not the id of the task itself.
C24_ResolvesTransitiveClosure ==
    ResolveReturned /\ Acyclic
    => /\ call.result[1] = TransitiveBlockers(call.task_id)
       /\ call.task_id \notin call.result[1]
       /\ call.result[1] = resolve_all_blocking_tasks(call.task_id, call.dependency_graph, {})

\* a chain of three relations that ends outside the graph: task 1 is blocked by 2,
\* 2 by 3 and 3 by an id that is no key, and all three are returned for task 1
C24_Witness ==
    /\ ResolveReturned
    /\ Acyclic
    /\ call.task_id = 1
    /\ store[1].blocking_task_ids = {2}
    /\ store[2].blocking_task_ids = {3}
    /\ store[3].blocking_task_ids = {ExternalId}
    /\ call.result[1] = {2, 3, ExternalId}


\* the calls in progress are for distinct ids, and the visited set of each is the set
\* of the ids of the calls from the outermost one down to it
PathsVisitDistinctIds ==
    call.op = "resolve_all_blocking_tasks"
    => \A k \in 1..Len(call.stack) :
          /\ call.stack[k].visited = {call.stack[j].task_id : j \in 1..k}
          /\ Cardinality(call.stack[k].visited) = k

\* C25: _resolve_all_blocking_tasks terminates on every finite dependency graph,
\* self-loops, two-task cycles and longer cycles included: each recursion path
\* extends its visited set by one distinct id, and every call made returns.
C25_ResolverTerminates ==
    /\ []PathsVisitDistinctIds
    /\ (call.op = "resolve_all_blocking_tasks") ~> ResolveReturned

\* the resolver has returned for a task on a cycle of three tasks after it met an id
\* a second time
C25_Witness ==
    /\ ResolveReturned
    /\ call.cycle_warned
    /\ store[1].blocking_task_ids = {2}
    /\ store[2].blocking_task_ids = {3}
    /\ store[3].blocking_task_ids = {1}

-----------------------------------------------------------------------------
(* Properties of the due date in the slot search *)

\* the candidate list is in ascending order of start
Ascending(slots) == \A k \in 1..(Len(slots) - 1) : slots[k].start < slots[k + 1].start

\* C26: on an ascending candidate list find_available_slot_range returns, with any
\* prefer_before, the range the search over the whole list returns, which is what
\* the call without prefer_before returns.
C26_DueDateNeverMovesPlacement ==
    call.op = "find_available_slot_range" /\ Ascending(call.slots)
    => call.result = find_contiguous_slots(call.slots, SlotsNeeded(call.duration_min, cfg))

\* a call with a due date that cuts the candidate list in two, answered from the part
\* before the due date while the part after it holds a run as well
C26_Witness ==
    /\ call.op = "find_available_slot_range"
    /\ call.prefer_before # None
    /\ call.result # None
    /\ call.result[2] <= call.prefer_before[1]
    /\ LET after_due == SelectSeq(call.slots, LAMBDA s : s.start >= call.prefer_before[1])
       IN  RunStarts(after_due, SlotsNeeded(call.duration_min, cfg)) # {}

-----------------------------------------------------------------------------
(* Properties of the outcome counters *)

\* schedule_tasks ran its loop to the end and returned its stats
ScheduleTasksReturned ==
    /\ CycleReturned
    /\ cyc["loop"].tasks # <<>>
    /\ cyc["loop"].i > Len(cyc["loop"].tasks)

StatsTotal(stats) == stats.scheduled + stats.rescheduled + stats.skipped + stats.errors

\* C27: every task the loop of schedule_tasks has processed has exactly one outcome,
\* so when schedule_tasks returns, scheduled + rescheduled + skipped + errors is the
\* number of tasks in the batch.
C27_OneOutcomePerTask ==
    /\ cyc["loop"].pc = "schedule_tasks"
       => /\ StatsTotal(cyc["loop"].stats) = cyc["loop"].i - 1
          /\ Cardinality(DOMAIN cyc["loop"].log) = cyc["loop"].i - 1
    /\ ScheduleTasksReturned
       => /\ StatsTotal(cyc["loop"].stats) = Len(cyc["loop"].tasks)
          /\ DOMAIN cyc["loop"].log = TaskIdsOf(cyc["loop"].tasks)

\* a returned run in which one task raised inside the try, the write of another
\* failed and a third was placed
C27_Witness ==
    /\ ScheduleTasksReturned
    /\ LoggedAs({"error_exception"}) # {}
    /\ LoggedAs({"error_update"}) # {}
    /\ PlacedIds # {}

-----------------------------------------------------------------------------
(* Properties of the placement of blocked tasks *)

\* the position of the task in the batch, which is the order of processing
PositionOf(id) == CHOOSE k \in 1..Len(cyc["loop"].tasks) : cyc["loop"].tasks[k].id = id

\* C28: a task that is blocked, directly or transitively, is placed in a cycle only
\* if every one of its blockers was placed earlier in the same cycle; no dependent of
\* a blocker that was skipped or failed in the cycle is placed in it.
C28_PlacedOnlyAfterAllBlockers ==
    /\ \A id \in PlacedIds :
         \A b \in TransitiveBlockers(id) :
            /\ b \in PlacedIds
            /\ PositionOf(b) < PositionOf(id)
    /\ \A b \in DOMAIN cyc["loop"].log :
         ~ Placed(cyc["loop"].log[b])
         => \A id \in TaskIds : b \in TransitiveBlockers(id) => id \notin PlacedIds

\* the first cycle placed task 1 and then task 2, which task 1 blocks; in the second
\* cycle the write of task 1 failed and task 2 was skipped
C28_Witness ==
    /\ CycleReturned
    /\ cyc["loop"].runs = 2
    /\ store[2].blocking_task_ids = {1}
    /\ {1, 2} \subseteq DOMAIN cyc["loop"].last_scheduled_tasks
    /\ DOMAIN cyc["loop"].log = TaskIds
    /\ cyc["loop"].log[1] = "error_update"
    /\ cyc["loop"].log[2] = "skipped_unscheduled_blockers"

-----------------------------------------------------------------------------
(* Properties of a failed write *)

\* the step is the iteration of the loop's cycle for a task whose write failed
FailedWriteStep ==
    /\ cyc["loop"].pc = "schedule_tasks"
    /\ cyc'["loop"].i = cyc["loop"].i + 1
    /\ cyc'["loop"].log[cyc["loop"].tasks[cyc["loop"].i].id] = "error_update"

\* C29: the iteration of a task whose write fails leaves the occupancy map, the set
\* of tasks recorded as placed and the task store as they were.
C29_FailedWriteChangesNothing ==
    [][FailedWriteStep
       => /\ occupied_slots' = occupied_slots
          /\ cyc'["loop"].scheduled_tasks = cyc["loop"].scheduled_tasks
          /\ store' = store]_vars

\* the write of task 1 failed; task 2 was then placed at the first generated slot,
\* which the search had found for task 1, and task 3, which task 1 blocks, was skipped
C29_Witness ==
    /\ CycleReturned
    /\ DOMAIN cyc["loop"].log = TaskIds
    /\ cyc["loop"].log[1] = "error_update"
    /\ store[1].blocking_task_ids = {}
    /\ 2 \in PlacedIds
    /\ Window(2)[1] = cyc["loop"].all_slots[1].start
    /\ 1 \in store[3].blocking_task_ids
    /\ cyc["loop"].log[3] = "skipped_unscheduled_blockers"
    /\ \A entry \in DOMAIN occupied_slots : occupied_slots[entry] # 1

-----------------------------------------------------------------------------
(* Properties of the status query *)

\* C30: a status query returns a last_run and a last_stats that were recorded by the
\* same cycle (or both by none), also when a cycle runs in the background thread
\* while the query is served.
C30_StatusIsOfOneCycle ==
    call.op = "get_status" /\ call.pc = "done"
    => call.last_run_cycle = call.last_stats_cycle

====
